---- MODULE Spec2Model ----
(***************************************************************************)
(* A model of pris, an MPRIS client library: the EventManager              *)
(* (src/src/event_manager.rs) and the Player handle (src/src/player.rs).   *)
(*                                                                         *)
(* The D-Bus connection is external to the repository.  It is modelled by  *)
(* the set of filter registrations it holds (active), the counter that     *)
(* hands out tokens (next_token) and, for every request sent to it, an     *)
(* outcome (success or failure) chosen by the environment.                 *)
(***************************************************************************)
EXTENDS Integers, Sequences, FiniteSets, TLC

VARIABLES
    callback_tokens,   \* EventManager.callback_tokens: Vec<Token>
    active,            \* tokens whose filter is registered on the connection
    registered,        \* token -> the rule add_match was given (kept after removal)
    next_token,        \* the connection's next fresh token
    requested,         \* history: token -> the EventType add_callback was called with
    successes,         \* history: number of add_callback calls that returned Ok
    removed,           \* history: tokens some remove_match request has removed
    em_last,           \* history: the last EventManager call and what it did
    clear_pc,          \* 0, or i while clear_callbacks awaits the i-th removal
    player,            \* the Player handed to the caller, or NoPlayer
    wire,              \* remote calls sent by the last Player operation
    validated,         \* history: names util::validate has reported valid
    pl_last,           \* history: the last Player call and how it ended
    panicked           \* TRUE once an unwrap() has panicked

em_vars == <<callback_tokens, active, registered, next_token, requested,
             successes, removed, em_last, clear_pc>>
pl_vars == <<player, validated, wire, pl_last, panicked>>
vars == <<callback_tokens, active, registered, next_token, requested,
          successes, removed, em_last, clear_pc, player, validated, wire, pl_last,
          panicked>>

(***************************************************************************)
(* Bounds of the model.                                                    *)
(***************************************************************************)
\* add_callback is not called once this many tokens are recorded
MaxCallbacks == 3
\* Durations given to seek and seek_reverse have at most this many seconds
MaxSecs == 1

(***************************************************************************)
(* EventManager                                                            *)
(***************************************************************************)
\* enum EventType; the tags are kept apart from the member strings they select
EventType == {"EventType::PropertiesChanged", "EventType::Seeked"}

\* the match of add_callback selecting the signal member
MemberNameSwapped(event_type) ==
    IF event_type = "EventType::PropertiesChanged" THEN "Seeked"
    ELSE "PropertiesChanged"

MemberName(event_type) ==
    IF event_type = "EventType::PropertiesChanged" THEN "PropertiesChanged"
    ELSE "Seeked"

\* the object path literal of add_callback
ObjectPath == "/org/mpris/MediaPlayer2"

\* Member::new / Path::new: Err for a string that is no valid name; the two
\* literals the code passes are never empty
StringNew(s) == IF s = "" THEN [ok |-> FALSE, value |-> ""]
                ELSE [ok |-> TRUE, value |-> s]

\* MatchRule::new() with member and path set
MatchRuleNew(event_type) ==
    LET member == StringNew(MemberName(event_type))
        path   == StringNew(ObjectPath)
    IN  [ok |-> member.ok /\ path.ok,
         rule |-> [member |-> member.value, path |-> path.value]]

\* EventManager::new
EventManagerNew ==
    /\ callback_tokens = << >>
    /\ active = {}
    /\ registered = << >>
    /\ next_token = 1
    /\ requested = << >>
    /\ successes = 0
    /\ removed = {}
    /\ em_last = [op |-> "new", result |-> "Ok",
                  tokens_before |-> << >>, removed_before |-> {},
                  answers |-> << >>, requests |-> << >>]
    /\ clear_pc = 0

\* the Vec after add_callback's registration step succeeded
PushTokenForgotten(tokens, token) == tokens

PushToken(tokens, token) == Append(tokens, token)

\* EventManager::add_callback; add_match_fails is the connection's answer.
\* It takes &mut self, so it does not start while clear_callbacks is suspended.
add_callback(event_type, add_match_fails) ==
    LET built == MatchRuleNew(event_type)
        ok    == built.ok /\ ~add_match_fails
        token == next_token
    IN  /\ ~panicked
        /\ clear_pc = 0
        /\ Len(callback_tokens) < MaxCallbacks
        /\ IF ok
           THEN /\ active' = active \cup {token}
                /\ registered' = registered @@ (token :> built.rule)
                /\ next_token' = next_token + 1
                /\ requested' = requested @@ (token :> event_type)
                /\ callback_tokens' = PushToken(callback_tokens, token)
                /\ successes' = successes + 1
           ELSE UNCHANGED <<active, registered, next_token, requested,
                            callback_tokens, successes>>
        /\ em_last' = [op |-> "add_callback",
                       result |-> IF ok THEN "Ok" ELSE "Err",
                       tokens_before |-> callback_tokens,
                       removed_before |-> removed,
                       answers |-> << >>, requests |-> << >>]
        /\ UNCHANGED <<removed, clear_pc>>

\* conn.remove_match(token): on success the filter is gone from the connection.
\* The answer (fail) is the connection's, for a registered token and for one
\* already removed alike; the code sends the request in both cases.
remove_match(act, token, fail) ==
    IF fail THEN [ok |-> FALSE, active |-> act]
    ELSE [ok |-> TRUE, active |-> act \ {token}]

\* the loop going on after a failed removal and reporting at the last token
after_answer_continue(tokens, i, fail) ==
    IF i < Len(tokens) THEN "Pending"
    ELSE IF fail THEN "Err" ELSE "Ok"

\* the loop ending one token early
after_answer_skip_last(tokens, i, fail) ==
    IF fail THEN "Err"
    ELSE IF i >= Len(tokens) - 1 THEN "Ok"
    ELSE "Pending"

\* where the for loop of clear_callbacks goes when the answer to the removal
\* of the i-th token arrives: `?` returns the Err, the end of the loop returns
\* Ok(()), otherwise the next removal is requested and awaited
after_answer(tokens, i, fail) ==
    IF fail THEN "Err"
    ELSE IF i = Len(tokens) THEN "Ok"
    ELSE "Pending"

\* the Vec once clear_callbacks has returned
TokensAfterClearEmptied(tokens, result) == IF result = "Ok" THEN << >> ELSE tokens

\* what is left in the Vec when clear_callbacks returns: it is only borrowed
TokensAfterClear(tokens, result) == tokens

\* EventManager::clear_callbacks, first poll: with no token it returns Ok(());
\* otherwise it requests the removal of the first token and suspends
clear_callbacks_start ==
    /\ ~panicked
    /\ clear_pc = 0
    /\ IF callback_tokens = << >>
       THEN /\ clear_pc' = 0
            /\ callback_tokens' = TokensAfterClear(callback_tokens, "Ok")
            /\ em_last' = [op |-> "clear_callbacks",
                           result |-> "Ok", tokens_before |-> callback_tokens,
                           removed_before |-> removed,
                           answers |-> << >>, requests |-> << >>]
       ELSE /\ clear_pc' = 1
            /\ UNCHANGED callback_tokens
            /\ em_last' = [op |-> "clear_callbacks",
                           result |-> "Pending",
                           tokens_before |-> callback_tokens,
                           removed_before |-> removed,
                           answers |-> << >>,
                           requests |-> <<callback_tokens[1]>>]
    /\ UNCHANGED <<active, registered, next_token, requested, successes,
                   removed>>

\* EventManager::clear_callbacks, a later poll: the connection has answered the
\* removal awaited (fail tells how); the future returns or awaits the next one
clear_callbacks_poll(fail) ==
    LET i   == clear_pc
        r   == remove_match(active, callback_tokens[i], fail)
        res == after_answer(callback_tokens, i, fail)
    IN  /\ ~panicked
        /\ clear_pc >= 1
        /\ active' = r.active
        /\ removed' = IF r.ok THEN removed \cup {callback_tokens[i]} ELSE removed
        /\ clear_pc' = IF res = "Pending" THEN i + 1 ELSE 0
        /\ callback_tokens' = IF res = "Pending" THEN callback_tokens
                              ELSE TokensAfterClear(callback_tokens, res)
        /\ em_last' = [em_last EXCEPT
                         !.result = res,
                         !.answers = Append(@, fail),
                         !.requests = IF res = "Pending"
                                      THEN Append(@, callback_tokens[i + 1])
                                      ELSE @]
        /\ UNCHANGED <<registered, next_token, requested, successes>>

\* the future of clear_callbacks dropped at an await: the request awaited was
\* sent, no result is returned and the loop goes no further
clear_callbacks_drop ==
    /\ ~panicked
    /\ clear_pc >= 1
    /\ clear_pc' = 0
    /\ em_last' = [em_last EXCEPT !.result = "Dropped"]
    /\ UNCHANGED <<callback_tokens, active, registered, next_token, requested,
                   successes, removed>>

(***************************************************************************)
(* Player                                                                  *)
(***************************************************************************)
\* the player names tried, and those that are players on the bus
PlayerNames == {"vlc", "ghost"}
LivePlayers == {"vlc"}

\* the values of try_new's generic T: AsRef<str> + Display.  For &str and
\* String both readings are the same string; a T of the caller's may give two
NameArgs == [as_ref : PlayerNames, display : PlayerNames]

\* the nanosecond parts of the Durations tried
NanosTried == {1500, 999999999}
Durations == [secs : 0..MaxSecs, nanos : NanosTried]
\* the arguments tried for set_position, open_uri and the property operations
Positions == {0, 150000}
Uris == {"file:///a.mp3"}
Properties == {"Volume"}
Values == {1}

\* Option<Player>: << >> or a one-element sequence
NoPlayer == << >>
SomePlayer(name) == <<[name |-> name]>>

\* util::validate(name, conn): Ok(true), Ok(false) or Err
validate(name, transport_fails) ==
    IF transport_fails THEN "Err"
    ELSE IF name \in LivePlayers THEN "Ok(true)" ELSE "Ok(false)"

\* the body of Player::try_new after validate has answered: the Player is
\* named name.to_string(), the Display reading of the argument
try_new_result(name, validation) ==
    IF validation = "Err" THEN [outcome |-> "Err", player |-> NoPlayer]
    ELSE IF validation # "Ok(true)" THEN [outcome |-> "Err", player |-> NoPlayer]
    ELSE [outcome |-> "Ok", player |-> SomePlayer(name.display)]

\* Player::get_proxy
get_proxy(p) ==
    [destination |-> "org.mpris.MediaPlayer2." \o p.name,
     path |-> "/org/mpris/MediaPlayer2",
     timeout_ms |-> 5000]

\* one remote request through the proxy, as the functions of `methods` make
method_call(p, method, args, remote_fails) ==
    [call |-> [destination |-> get_proxy(p).destination,
               path |-> get_proxy(p).path,
               method |-> method, args |-> args],
     result |-> IF remote_fails THEN "Err" ELSE "Ok"]

\* Duration::as_micros
as_micros(d) == d.secs * 1000000 + d.nanos \div 1000

\* methods::seek and methods::seek_reverse
methods_seek(p, offset, remote_fails) ==
    method_call(p, "Seek", <<as_micros(offset)>>, remote_fails)
methods_seek_reverse(p, offset, remote_fails) ==
    method_call(p, "Seek", <<-as_micros(offset)>>, remote_fails)
\* methods::set_position, methods::open_uri
methods_set_position(p, position, remote_fails) ==
    method_call(p, "SetPosition", <<position>>, remote_fails)
methods_open_uri(p, uri, remote_fails) ==
    method_call(p, "OpenUri", <<uri>>, remote_fails)
\* methods::get_property, methods::set_property, methods::get_metadata_property;
\* the value a get returns is the remote player's and is not modelled
methods_get_property(p, property, remote_fails) ==
    method_call(p, "Get", <<property>>, remote_fails)
methods_set_property(p, property, value, remote_fails) ==
    method_call(p, "Set", <<property, value>>, remote_fails)
methods_get_metadata_property(p, property, remote_fails) ==
    method_call(p, "Get", <<"Metadata", property>>, remote_fails)

\* a Result that swallows the failure
unwrap_ignoring(result) == "returned"

\* Result::unwrap: returns on Ok, panics on Err
unwrap(result) == IF result = "Ok" THEN "returned" ELSE "panic"

PlayerInit ==
    /\ player = NoPlayer
    /\ validated = {}
    /\ wire = << >>
    /\ pl_last = [op |-> "none", name |-> "", validation |-> "",
                  arg |-> << >>, remote_fails |-> FALSE,
                  handle |-> NoPlayer, outcome |-> ""]
    /\ panicked = FALSE

\* Player::try_new: validates name.as_ref(), stores name.to_string()
try_new(name, transport_fails) ==
    LET validation == validate(name.as_ref, transport_fails)
        res        == try_new_result(name, validation)
    IN  /\ ~panicked
        /\ player' = IF res.outcome = "Ok" THEN res.player ELSE player
        /\ validated' = IF validation = "Ok(true)"
                        THEN validated \cup {name.as_ref}
                        ELSE validated
        /\ wire' = << >>
        /\ pl_last' = [op |-> "try_new", name |-> name.display,
                       validation |-> validation,
                       arg |-> <<name>>, remote_fails |-> transport_fails,
                       handle |-> res.player, outcome |-> res.outcome]
        /\ UNCHANGED panicked

\* a playback control: methods::<op>(self).await.unwrap()
Control(op, method, remote_fails) ==
    LET r   == method_call(player[1], method, << >>, remote_fails)
        end == unwrap(r.result)
    IN  /\ ~panicked
        /\ player # NoPlayer
        /\ wire' = <<r.call>>
        /\ pl_last' = [op |-> op, name |-> player[1].name, validation |-> "",
                       arg |-> << >>, remote_fails |-> remote_fails,
                       handle |-> NoPlayer, outcome |-> end]
        /\ panicked' = (end = "panic")
        /\ UNCHANGED <<player, validated>>

next(remote_fails)       == Control("next", "Next", remote_fails)
previous(remote_fails)   == Control("previous", "Previous", remote_fails)
pause(remote_fails)      == Control("pause", "Pause", remote_fails)
play(remote_fails)       == Control("play", "Play", remote_fails)
play_pause(remote_fails) == Control("play_pause", "PlayPause", remote_fails)
stop(remote_fails)       == Control("stop", "Stop", remote_fails)

\* an operation of the form Ok(methods::<op>(self, ..).await?)
Fallible(op, arg, remote_fails, r) ==
    /\ ~panicked
    /\ player # NoPlayer
    /\ wire' = <<r.call>>
    /\ pl_last' = [op |-> op, name |-> player[1].name, validation |-> "",
                   arg |-> arg, remote_fails |-> remote_fails,
                   handle |-> NoPlayer, outcome |-> r.result]
    /\ UNCHANGED <<player, validated, panicked>>

\* Player::seek
seek_call(p, offset, remote_fails) == methods_seek(p, offset, remote_fails)

seek(offset, remote_fails) ==
    Fallible("seek", <<offset>>, remote_fails,
             seek_call(player[1], offset, remote_fails))

\* seek_reverse calling the forward seek
seek_reverse_call_forward(p, offset, remote_fails) ==
    methods_seek(p, offset, remote_fails)

\* Player::seek_reverse
seek_reverse_call(p, offset, remote_fails) ==
    methods_seek_reverse(p, offset, remote_fails)

seek_reverse(offset, remote_fails) ==
    Fallible("seek_reverse", <<offset>>, remote_fails,
             seek_reverse_call(player[1], offset, remote_fails))

\* Player::set_position, Player::open_uri
set_position(position, remote_fails) ==
    Fallible("set_position", <<position>>, remote_fails,
             methods_set_position(player[1], position, remote_fails))
open_uri(uri, remote_fails) ==
    Fallible("open_uri", <<uri>>, remote_fails,
             methods_open_uri(player[1], uri, remote_fails))

\* Player::get_property, Player::set_property, Player::get_metadata_property
get_property(property, remote_fails) ==
    Fallible("get_property", <<property>>, remote_fails,
             methods_get_property(player[1], property, remote_fails))
set_property(property, value, remote_fails) ==
    Fallible("set_property", <<property, value>>, remote_fails,
             methods_set_property(player[1], property, value, remote_fails))
get_metadata_property(property, remote_fails) ==
    Fallible("get_metadata_property", <<property>>, remote_fails,
             methods_get_metadata_property(player[1], property, remote_fails))

(***************************************************************************)
(* The program: the EventManager and the Player share the connection, and  *)
(* the calls of one run between the polls of the other.                    *)
(***************************************************************************)
Init == EventManagerNew /\ PlayerInit

AddCallback ==
    \E event_type \in EventType, add_match_fails \in BOOLEAN :
        add_callback(event_type, add_match_fails) /\ UNCHANGED pl_vars
ClearStart == clear_callbacks_start /\ UNCHANGED pl_vars
ClearPoll == \E fail \in BOOLEAN : clear_callbacks_poll(fail) /\ UNCHANGED pl_vars
ClearDrop == clear_callbacks_drop /\ UNCHANGED pl_vars

TryNew ==
    \E name \in NameArgs, transport_fails \in BOOLEAN :
        try_new(name, transport_fails) /\ UNCHANGED em_vars
PlayNext      == \E f \in BOOLEAN : next(f) /\ UNCHANGED em_vars
PlayPrevious  == \E f \in BOOLEAN : previous(f) /\ UNCHANGED em_vars
Pause         == \E f \in BOOLEAN : pause(f) /\ UNCHANGED em_vars
Play          == \E f \in BOOLEAN : play(f) /\ UNCHANGED em_vars
PlayPause     == \E f \in BOOLEAN : play_pause(f) /\ UNCHANGED em_vars
Stop          == \E f \in BOOLEAN : stop(f) /\ UNCHANGED em_vars
Seek ==
    \E offset \in Durations, f \in BOOLEAN : seek(offset, f) /\ UNCHANGED em_vars
SeekReverse ==
    \E offset \in Durations, f \in BOOLEAN :
        seek_reverse(offset, f) /\ UNCHANGED em_vars
SetPosition ==
    \E position \in Positions, f \in BOOLEAN :
        set_position(position, f) /\ UNCHANGED em_vars
OpenUri == \E uri \in Uris, f \in BOOLEAN : open_uri(uri, f) /\ UNCHANGED em_vars
GetProperty ==
    \E property \in Properties, f \in BOOLEAN :
        get_property(property, f) /\ UNCHANGED em_vars
SetProperty ==
    \E property \in Properties, value \in Values, f \in BOOLEAN :
        set_property(property, value, f) /\ UNCHANGED em_vars
GetMetadataProperty ==
    \E property \in Properties, f \in BOOLEAN :
        get_metadata_property(property, f) /\ UNCHANGED em_vars

EventManagerNext == AddCallback \/ ClearStart \/ ClearPoll \/ ClearDrop

PlayerNext ==
    \/ TryNew
    \/ PlayNext \/ PlayPrevious \/ Pause \/ Play \/ PlayPause \/ Stop
    \/ Seek \/ SeekReverse \/ SetPosition \/ OpenUri
    \/ GetProperty \/ SetProperty \/ GetMetadataProperty

Next == EventManagerNext \/ PlayerNext

Spec == Init /\ [][Next]_vars

(***************************************************************************)
(* Properties                                                              *)
(***************************************************************************)
Range(f) == {f[i] : i \in DOMAIN f}
Distinct(f) == \A i, j \in DOMAIN f : i # j => f[i] # f[j]
ClearCalled == em_last.op = "clear_callbacks"
\* the last EventManager call has returned (it is not suspended or dropped)
Returned == em_last.result \in {"Ok", "Err"}
\* the index of the first removal the connection failed, 0 when it failed none
FirstFailure(answers) ==
    IF \E i \in DOMAIN answers : answers[i]
    THEN CHOOSE i \in DOMAIN answers :
             answers[i] /\ \A j \in DOMAIN answers : j < i => ~answers[j]
    ELSE 0
Controls == {"next", "previous", "pause", "play", "play_pause", "stop"}
ControlMethod ==
    [next |-> "Next", previous |-> "Previous", pause |-> "Pause",
     play |-> "Play", play_pause |-> "PlayPause", stop |-> "Stop"]

\* C1: whenever the last call on the manager has returned, every token held in
\* callback_tokens stands for exactly one filter registration that is active
\* on the connection.
C1_TokensAreActive ==
    Returned =>
        /\ Distinct(callback_tokens)
        /\ \A i \in DOMAIN callback_tokens : callback_tokens[i] \in active

\* C2: after clear_callbacks returns Ok, no filter registered through
\* add_callback is still active on the connection.
C2_ClearLeavesNoRegistration ==
    (ClearCalled /\ em_last.result = "Ok") =>
        \A t \in DOMAIN requested : t \notin active
C2_Witness ==
    /\ ClearCalled /\ em_last.result = "Ok"
    /\ Len(em_last.tokens_before) >= 2
    /\ \E t \in Range(em_last.tokens_before) : t \notin em_last.removed_before

\* C3: add_callback appends exactly one token when it returns Ok and leaves
\* the collection as it was when it returns Err.
C3_AddCallbackBookkeeping ==
    em_last.op = "add_callback" =>
        IF em_last.result = "Ok"
        THEN /\ Len(callback_tokens) = Len(em_last.tokens_before) + 1
             /\ SubSeq(callback_tokens, 1, Len(em_last.tokens_before))
                    = em_last.tokens_before
             /\ callback_tokens[Len(callback_tokens)]
                    \notin Range(em_last.tokens_before)
        ELSE callback_tokens = em_last.tokens_before
C3_Witness ==
    /\ em_last.op = "add_callback" /\ em_last.result = "Ok"
    /\ Len(callback_tokens) = 2

\* C4: N successful add_callback calls record N tokens, and a clear_callbacks
\* that returns with no removal failed has sent one removal request per
\* recorded token.
C4_OneRequestPerToken ==
    /\ Len(callback_tokens) = successes
    /\ (ClearCalled /\ Returned /\ FirstFailure(em_last.answers) = 0) =>
          /\ Len(em_last.requests) = Len(em_last.tokens_before)
          /\ \A i \in DOMAIN em_last.tokens_before :
                Cardinality({j \in DOMAIN em_last.requests :
                    em_last.requests[j] = em_last.tokens_before[i]}) = 1
C4_Witness ==
    /\ ClearCalled /\ Returned /\ FirstFailure(em_last.answers) = 0
    /\ successes = 3 /\ Len(em_last.requests) = 3

\* C5: when the removal of the k-th token fails, clear_callbacks returns Err at
\* that poll, having sent one request for each of the first k tokens and none
\* for a later one.
C5_AbortOnFirstFailure ==
    LET k == FirstFailure(em_last.answers)
    IN  (ClearCalled /\ k > 0) =>
           /\ em_last.result = "Err"
           /\ clear_pc = 0
           /\ Len(em_last.answers) = k
           /\ em_last.requests = SubSeq(em_last.tokens_before, 1, k)
           /\ \A i \in (k + 1)..Len(em_last.tokens_before) :
                 em_last.tokens_before[i] \notin Range(em_last.requests)
C5_Witness ==
    /\ ClearCalled /\ FirstFailure(em_last.answers) = 2
    /\ Len(em_last.tokens_before) = 3

\* C6 as stated: a playback control whose remote call fails still completes
\* normally, with no abnormal termination.
C6_ControlsDiscardFailure ==
    (pl_last.op \in Controls /\ pl_last.remote_fails) =>
        pl_last.outcome = "returned" /\ ~panicked
\* C6 amended: a playback control sends one argument-less call of its method;
\* it returns normally when the call succeeds and panics when the call fails.
C6_ControlsPanicOnFailure ==
    pl_last.op \in Controls =>
        /\ Len(wire) = 1
        /\ wire[1].method = ControlMethod[pl_last.op]
        /\ wire[1].args = << >>
        /\ pl_last.remote_fails => (pl_last.outcome = "panic" /\ panicked)
        /\ ~pl_last.remote_fails => (pl_last.outcome = "returned" /\ ~panicked)
C6_Witness ==
    pl_last.op = "play_pause" /\ pl_last.remote_fails /\ panicked

\* C7: try_new returns Err and no Player when validation reports the name
\* invalid or fails itself; a Player is returned only for a name that
\* validation reported valid.
C7_TryNewOnlyValidated ==
    /\ pl_last.op = "try_new" =>
          IF pl_last.validation = "Ok(true)"
          THEN pl_last.outcome = "Ok" /\ pl_last.handle # NoPlayer
          ELSE pl_last.outcome = "Err" /\ pl_last.handle = NoPlayer
    /\ player # NoPlayer => player[1].name \in validated
\* the part of C7 the code keeps: the outcome of try_new follows the answer
\* of the validation of name.as_ref()
C7_OutcomeFollowsValidation ==
    pl_last.op = "try_new" =>
        IF pl_last.validation = "Ok(true)"
        THEN pl_last.outcome = "Ok" /\ pl_last.handle = SomePlayer(pl_last.name)
        ELSE pl_last.outcome = "Err" /\ pl_last.handle = NoPlayer

\* C8: the filter registered for a token has the member fixed for the event
\* type asked for and the MPRIS object path; tokens recorded are distinct.
C8_FilterMemberAndPath ==
    /\ Distinct(callback_tokens)
    /\ \A i \in DOMAIN callback_tokens :
          LET t == callback_tokens[i]
          IN  /\ registered[t].path = "/org/mpris/MediaPlayer2"
              /\ requested[t] = "EventType::PropertiesChanged"
                    => registered[t].member = "PropertiesChanged"
              /\ requested[t] = "EventType::Seeked"
                    => registered[t].member = "Seeked"
C8_Witness ==
    /\ Len(callback_tokens) = 2
    /\ callback_tokens[1] # callback_tokens[2]
    /\ \A i \in 1..2 : requested[callback_tokens[i]] = "EventType::Seeked"
    /\ \A i \in 1..2 : registered[callback_tokens[i]].member = "Seeked"

\* C9: seek_reverse(d) sends one Seek call whose argument is the negated
\* microsecond value of d, the call seek sends for d with the sign changed,
\* and both hand a failure of the remote call back to the caller.
C9_SeekReverseNegates ==
    pl_last.op \in {"seek", "seek_reverse"} =>
        LET d      == pl_last.arg[1]
            micros == d.secs * 1000000 + d.nanos \div 1000
        IN  /\ Len(wire) = 1
            /\ wire[1].method = "Seek"
            /\ pl_last.outcome = (IF pl_last.remote_fails THEN "Err" ELSE "Ok")
            /\ ~panicked
            /\ pl_last.op = "seek" => wire[1].args = <<micros>>
            /\ pl_last.op = "seek_reverse" => wire[1].args = <<0 - micros>>
C9_Witness ==
    /\ pl_last.op = "seek_reverse"
    /\ pl_last.arg = <<[secs |-> 1, nanos |-> 1500]>>
    /\ wire[1].args = <<-1000001>>
    /\ pl_last.outcome = "Err"

\* C10 as stated: clear_callbacks leaves callback_tokens as it was, its length
\* is the number of successful add_callback calls, and a later clear_callbacks
\* that has returned has sent a request again for every token an earlier one
\* removed.
C10_SecondClearRequestsAll ==
    /\ ClearCalled => callback_tokens = em_last.tokens_before
    /\ Len(callback_tokens) = successes
    /\ (ClearCalled /\ Returned) =>
          \A t \in Range(em_last.tokens_before) \cap em_last.removed_before :
             t \in Range(em_last.requests)
\* C10 amended: clear_callbacks leaves callback_tokens as it was, so its length
\* is the number of successful add_callback calls and removed tokens stay
\* recorded; a later clear_callbacks that has returned has sent a request again
\* for each token an earlier one removed, in order, up to the first removal
\* that failed.
C10_ClearKeepsTokens ==
    /\ ClearCalled => callback_tokens = em_last.tokens_before
    /\ Len(callback_tokens) = successes
    /\ removed \subseteq Range(callback_tokens)
    /\ (ClearCalled /\ Returned) =>
          \A i \in DOMAIN em_last.tokens_before :
             (/\ em_last.tokens_before[i] \in em_last.removed_before
              /\ \A j \in 1..i - 1 : ~em_last.answers[j])
                => /\ i \in DOMAIN em_last.requests
                   /\ em_last.requests[i] = em_last.tokens_before[i]
C10_Witness ==
    /\ ClearCalled /\ em_last.result = "Ok"
    /\ Len(em_last.tokens_before) = 2
    /\ Range(em_last.tokens_before) \subseteq em_last.removed_before
    /\ Len(em_last.requests) = 2

====
